---- MODULE Spec2Model ----
(***************************************************************************)
(* A model of the csee TCP measurement harness.                            *)
(*                                                                         *)
(*   src/src/main.rs     counter-mode program: clean, init, simulate       *)
(*   src/src/initial.rs  snapshot-mode build and trial: init_old,          *)
(*                       simulate_old                                      *)
(*   src/src/revised.rs  snapshot-mode build and trial with the packet     *)
(*                       filter: init_new, simulate_new                    *)
(*                                                                         *)
(* The kernel objects the programs act on through ip, tc, nft and ethtool  *)
(* (network contexts, the veth link, root qdiscs, the filter ruleset) are  *)
(* the record kern; every external command is a record run by Exec, which  *)
(* fails exactly when the kernel would refuse it in that state.            *)
(***************************************************************************)
EXTENDS Integers, Sequences, FiniteSets, TLC

VARIABLES
    prog,       \* which program runs: "main", "old" (initial.rs), "new" (revised.rs)
    pc,         \* position of the main thread
    kern,       \* kernel state: contexts, link, qdiscs, filter rules
    curns,      \* network context of the process ("root", "server", "client")
    listener,   \* the accept/drain thread spawned by the build is alive
    trial,      \* number of trials started in this process
    ret,        \* how the last trial returned: "none", "ok", "err"
    qdisc0,     \* kern.qdisc when the current trial started (before its apply)
    applied,    \* the qdisc rule the current trial added, or NoRule
    removed,    \* the qdisc rule the current trial asked to delete, or NoRule
    arg,        \* the current trial's input: quantity index (main) or <<r, p>>
    conn,       \* the trial's TCP stream: "none", "open", "reset", "closed"
    rx,         \* bytes waiting in the stream's receive buffer (main.rs)
    delivered,  \* number of chunks the peer has delivered in this trial
    amount,     \* the shared AtomicUsize of simulate (main.rs:102)
    total,      \* bytes added to amount so far in this trial
    data,       \* the sampler thread's Vec of recorded rates
    spc,        \* position of the sampler thread: "none", "wait", "done"
    ticks,      \* iterations of the sampler's for loop completed
    clock,      \* time elapsed since the trial's `now` (snapshot mode)
    iter0,      \* clock at the start of the current loop iteration
    segcnt,     \* simulate_old/new: frames fully written
    sent,       \* bytes the socket has accepted in this trial
    measurements, \* simulate_old/new: the Vec<Measurement>
    wres,       \* result of the last write_all: "none", "ok", "wouldblock", "error"
    wbcnt,      \* loop iterations of this trial whose write reported would-block
    rc,         \* what getsockopt returned to the last TcpInfo::read (0 before any)
    sock_len,   \* TcpInfo::read: sock_len after the last getsockopt
    spin,       \* the threads that are going round an empty wait loop
    lq,         \* trials whose connection waits in the listener's backlog
    served,     \* drain thread: 0 in accept(), k in its inner loop on trial k's stream
    verdicts    \* drop verdicts of the trial's numgen rule, oldest first

vars == <<prog, pc, kern, curns, listener, trial, ret, qdisc0, applied,
          removed, arg, conn, rx, delivered, amount, total, data, spc, ticks,
          clock, iter0, segcnt, sent, measurements, wres, wbcnt, rc,
          sock_len, spin, lq, served, verdicts>>

kvars == <<kern, curns, listener>>

lvars == <<lq, served>>

tvars == <<trial, ret, qdisc0, applied, removed, arg, conn>>

cvars == <<rx, delivered, amount, total, data, spc, ticks>>

svars == <<clock, iter0, segcnt, sent, measurements, wres, wbcnt, rc, sock_len>>

fvars == <<verdicts>>

----------------------------------------------------------------------------
(* Bounds of the model *)

\* trials one process runs (main.rs runs 11: the quantities 0..10)
MaxTrials == 2
\* the sampler's loop count CNT, 200 in main.rs:81, scaled down
CNT == 2
\* chunks the peer delivers during one counter-mode trial
MaxDeliver == 2
\* trial duration in clock units (60 s in simulate_old/new), scaled down
DUR == 4
\* sampling interval in clock units (100 ms in simulate_old/new), scaled down
INTERVAL == 2
\* largest denominator of a requested drop probability p = num/den
MaxDen == 3
\* packets the last rule of the server's chain decides on during one trial
MaxPkts == 6

(* Program constants *)

\* 1 / LEN: a recorded rate is bytes / 0.050, in units of 2^-17 mb/s
InvLEN == 20
\* size of the read buffer of simulate
BUF == 1024
\* size of one frame written by simulate_old/new
FRAME == 1460
\* the filter drops packets longer than this
MTU == 1500
\* size_of::<TcpInfo>(): eight u8 fields followed by twenty-four u32 fields
TcpInfoSize == 104
\* byte offset of tcpi_snd_cwnd in the repr(C) layout, and its width
CwndOffset == 80
U32 == 4

Sides == {"server", "client"}

NoRule == [kind |-> "none"]

NoFilter == [table |-> FALSE, chain |-> FALSE, rules |-> <<>>]

\* the kernel with no context, no link, no qdisc and no filter
EmptyKern ==
    [netns |-> {}, veth |-> FALSE, addr |-> {}, up |-> {}, tso_off |-> {},
     qdisc |-> [s \in Sides |-> NoRule],
     nft |-> [s \in Sides |-> NoFilter]]

----------------------------------------------------------------------------
(* External commands *)

Cmd(op, side) == [op |-> op, side |-> side, rule |-> NoRule]

CmdR(op, side, rule) == [op |-> op, side |-> side, rule |-> rule]

\* a command run with `ip netns exec <side>` fails when the context is absent
InNs(c, K) == c.side \in K.netns

\* deleting a context destroys the veth pair (both ends, with their addresses
\* and qdiscs) and the context's own filter ruleset
DelNetns(side, K) ==
    [K EXCEPT !.netns = @ \ {side},
              !.veth = FALSE,
              !.addr = IF K.veth THEN {} ELSE @,
              !.up = IF K.veth THEN {} ELSE @,
              !.tso_off = IF K.veth THEN {} ELSE @,
              !.qdisc = IF K.veth THEN [s \in Sides |-> NoRule] ELSE @,
              !.nft[side] = NoFilter]

\* whether the kernel accepts the command in state K
Accepts(c, K) ==
    CASE c.op = "netns_add" -> c.side \notin K.netns
      [] c.op = "netns_del" -> c.side \in K.netns
      [] c.op = "link_add" -> K.netns = Sides /\ ~K.veth
      [] c.op = "addr_add" -> InNs(c, K) /\ K.veth /\ c.side \notin K.addr
      [] c.op = "link_up" -> InNs(c, K) /\ K.veth
      [] c.op = "tso_off" -> InNs(c, K) /\ K.veth
      [] c.op = "qdisc_add" ->
            InNs(c, K) /\ K.veth /\ K.qdisc[c.rule.dev] = NoRule
      [] c.op = "qdisc_del" ->
            /\ InNs(c, K) /\ K.veth
            /\ K.qdisc[c.rule.dev] # NoRule
            /\ K.qdisc[c.rule.dev].kind = c.rule.kind
      [] c.op = "nft_add_table" -> InNs(c, K)
      [] c.op = "nft_add_chain" -> InNs(c, K) /\ K.nft[c.side].table
      [] c.op = "nft_add_rule" ->
            /\ InNs(c, K) /\ K.nft[c.side].chain
            /\ (c.rule.kind = "numgen" => ~c.rule.inf)
      [] c.op = "nft_flush" -> InNs(c, K)
      [] OTHER -> FALSE

\* the kernel state after an accepted command
Effect(c, K) ==
    CASE c.op = "netns_add" -> [K EXCEPT !.netns = @ \cup {c.side}]
      [] c.op = "netns_del" -> DelNetns(c.side, K)
      [] c.op = "link_add" -> [K EXCEPT !.veth = TRUE]
      [] c.op = "addr_add" -> [K EXCEPT !.addr = @ \cup {c.side}]
      [] c.op = "link_up" -> [K EXCEPT !.up = @ \cup {c.side}]
      [] c.op = "tso_off" -> [K EXCEPT !.tso_off = @ \cup {c.side}]
      [] c.op = "qdisc_add" -> [K EXCEPT !.qdisc[c.rule.dev] = c.rule]
      [] c.op = "qdisc_del" -> [K EXCEPT !.qdisc[c.rule.dev] = NoRule]
      [] c.op = "nft_add_table" -> [K EXCEPT !.nft[c.side].table = TRUE]
      [] c.op = "nft_add_chain" -> [K EXCEPT !.nft[c.side].chain = TRUE]
      [] c.op = "nft_add_rule" ->
            [K EXCEPT !.nft[c.side].rules = Append(@, c.rule)]
      [] c.op = "nft_flush" -> [K EXCEPT !.nft[c.side] = NoFilter]
      [] OTHER -> K

\* execute / exec: Ok and the new kernel state, or Err and the state unchanged
Exec(c, K) ==
    IF Accepts(c, K) THEN [ok |-> TRUE, k |-> Effect(c, K)]
    ELSE [ok |-> FALSE, k |-> K]

\* a sequence of `exec(..)?` calls: stops at the first command that fails
RECURSIVE RunAll(_, _)
RunAll(cmds, K) ==
    IF cmds = <<>> THEN [ok |-> TRUE, k |-> K]
    ELSE LET r == Exec(Head(cmds), K)
         IN IF r.ok THEN RunAll(Tail(cmds), r.k) ELSE r

\* a sequence of `let _ = exec(..)` calls: every command runs, errors are dropped
RECURSIVE RunIgnoring(_, _)
RunIgnoring(cmds, K) ==
    IF cmds = <<>> THEN K
    ELSE RunIgnoring(Tail(cmds), Exec(Head(cmds), K).k)

----------------------------------------------------------------------------
(* Topology: clean, init, init_old, init_new *)

\* clean: `ip netns delete` of both sides, each with `?`
CleanCmds == <<Cmd("netns_del", "server"), Cmd("netns_del", "client")>>

clean(K) == RunAll(CleanCmds, K)

\* the deletions at the head of init_old and init_new, each with `let _ =`
PreDelete(K) == RunIgnoring(CleanCmds, K)

\* the commands of init (main.rs), in the order the two loops issue them
InitCmds ==
    <<Cmd("netns_add", "server"), Cmd("netns_add", "client"),
      Cmd("link_add", "server"),
      Cmd("link_up", "server"), Cmd("addr_add", "server"),
      Cmd("link_up", "client"), Cmd("addr_add", "client")>>

\* the commands of init_old after its deletions, up to the first setns
InitOldCmds ==
    <<Cmd("netns_add", "server"), Cmd("netns_add", "client"),
      Cmd("link_add", "server"),
      Cmd("addr_add", "server"), Cmd("addr_add", "client"),
      Cmd("link_up", "server"), Cmd("link_up", "client")>>

\* init_new adds the two ethtool commands
InitNewCmds ==
    InitOldCmds \o <<Cmd("tso_off", "server"), Cmd("tso_off", "client")>>

\* setns(File::open("/var/run/netns/<side>")?): the file is there when the
\* context is; TcpListener::bind needs the address on the server's link end
CanListen(K) == "server" \in K.netns /\ "server" \in K.addr /\ "client" \in K.netns

\* The part of a build after its commands: enter the server context, bind and
\* spawn the drain thread, enter the client context. r is the commands' result.
Listen(r, ns, lst) ==
    IF r.ok /\ CanListen(r.k)
    THEN [ok |-> TRUE, k |-> r.k, curns |-> "client", listener |-> TRUE]
    ELSE [ok |-> FALSE, k |-> r.k, curns |-> ns, listener |-> lst]

init(K, ns, lst) == Listen(RunAll(InitCmds, K), ns, lst)

init_old(K, ns, lst) ==
    LET b == Listen(RunAll(InitOldCmds, PreDelete(K)), ns, lst)
        t == Exec(Cmd("nft_add_table", "client"), b.k)
    IN IF b.ok THEN [b EXCEPT !.ok = t.ok, !.k = t.k] ELSE b

init_new(K, ns, lst) == Listen(RunAll(InitNewCmds, PreDelete(K)), ns, lst)

\* the topology every build is to end with
Complete(K) ==
    /\ K.netns = Sides /\ K.veth
    /\ K.addr = Sides /\ K.up = Sides

----------------------------------------------------------------------------
(* Impairment rules *)

\* format!("{:2.1}%", i as f64 / 5f64): the integer part and the tenths digit
Quantity(i) == <<(2 * i) \div 10, (2 * i) % 10>>

\* main.rs: `netem {impairment} {quantity} rate 1073741824bit` on dev server
NetemMain(i) ==
    [kind |-> "netem", dev |-> "server",
     args |-> <<"delay 10ms reorder", Quantity(i)>>, rate |-> "1073741824bit"]

\* simulate_old: `netem delay {r}s loss {p}` on dev client
NetemOld(r, p) ==
    [kind |-> "netem", dev |-> "client", args |-> <<"delay", r, "loss", p>>,
     rate |-> ""]

\* simulate_new: `netem delay {r}s` on dev client
NetemNew(r) ==
    [kind |-> "netem", dev |-> "client", args |-> <<"delay", r>>, rate |-> ""]

\* the rule named by the `tc qdisc add` of a trial
AddRule(pg, a) ==
    CASE pg = "main" -> NetemMain(a)
      [] pg = "old" -> NetemOld(a[1], a[2])
      [] OTHER -> NetemNew(a[1])

\* a delete that names the other end of the link
DelRuleOtherDev(pg, a) ==
    [AddRule(pg, a) EXCEPT !.dev = IF @ = "server" THEN "client" ELSE "server"]

\* the rule named by the `tc qdisc del` of a trial
DelRule(pg, a) ==
    CASE pg = "main" -> NetemMain(a)
      [] pg = "old" -> NetemOld(a[1], a[2])
      [] OTHER -> NetemNew(a[1])

\* p.recip().round() for p = num/den >= 0: halves round away from zero, and
\* the reciprocal of 0.0 is inf
RoundRecip(p) ==
    IF p[1] = 0 THEN [inf |-> TRUE, n |-> 0]
    ELSE [inf |-> FALSE, n |-> (2 * p[2] + p[1]) \div (2 * p[1])]

\* a rule that compares the generator with N, a value it never takes
DropRuleOffByOne(p) ==
    LET N == RoundRecip(p)
    IN [kind |-> "numgen", inf |-> N.inf, mod |-> N.n, eq |-> N.n, ctr |-> 0]

\* `numgen inc mod {N} == {N - 1} counter drop`; ctr is the value the
\* generator hands out next
DropRule(p) ==
    LET N == RoundRecip(p)
    IN [kind |-> "numgen", inf |-> N.inf, mod |-> N.n, eq |-> N.n - 1,
        ctr |-> 0]

\* the five nft commands at the head of simulate_new
FilterCmds(p) ==
    <<Cmd("nft_add_table", "server"), Cmd("nft_add_chain", "server"),
      CmdR("nft_add_rule", "server", [kind |-> "counter"]),
      CmdR("nft_add_rule", "server", [kind |-> "lendrop"]),
      CmdR("nft_add_rule", "server", DropRule(p))>>

\* One packet of length plen through the rules from index i on. Returns the
\* rules (their generators advanced), whether the packet is dropped, and what
\* the last rule of the chain did with it: "drop", "pass" or "none" (the
\* packet never reached it).
RECURSIVE Filter(_, _, _)
Filter(rules, i, plen) ==
    IF i > Len(rules) THEN [rules |-> rules, drop |-> FALSE, last |-> "none"]
    ELSE LET r == rules[i]
         IN CASE r.kind = "lendrop" ->
                    IF plen > MTU
                    THEN [rules |-> rules, drop |-> TRUE, last |-> "none"]
                    ELSE Filter(rules, i + 1, plen)
              [] r.kind = "numgen" ->
                    LET rs == [rules EXCEPT ![i].ctr = (r.ctr + 1) % r.mod]
                        hit == r.ctr = r.eq
                        rest == Filter(rs, i + 1, plen)
                    IN IF hit
                       THEN [rules |-> rs, drop |-> TRUE,
                             last |-> IF i = Len(rules) THEN "drop" ELSE "none"]
                       ELSE IF i = Len(rules)
                            THEN [rest EXCEPT !.last = "pass"]
                            ELSE rest
              [] OTHER -> Filter(rules, i + 1, plen)

----------------------------------------------------------------------------
(* Inputs *)

\* num/den is written in lowest terms
Reduced(q) == \A d \in 2 .. MaxDen : ~(q[1] % d = 0 /\ q[2] % d = 0)

\* requested drop probabilities p = num/den in [0, 1], each value once
Ps == {q \in (0 .. MaxDen) \X (1 .. MaxDen) : q[1] <= q[2] /\ Reduced(q)}

\* one-way delays r a trial is asked for, in seconds; r only goes into the
\* text of the netem rule
Rs == {1}

\* sizes of the chunks the peer delivers to the stream of simulate
ChunkSizes == {1, BUF, BUF + 1}

\* bytes of a frame the socket takes before write_all reports would-block
PartialSizes == {0, FRAME \div 2}

\* lengths of the packets that reach the server's input hook
PacketLens == {MTU, MTU + 1}

\* values the kernel reports for tcpi_snd_cwnd
CwndVals == {1, 10}

\* what the bytes of the buffer that getsockopt did not write may hold
JunkVals == {0, 10}

\* answers of getsockopt(TCP_INFO): a failure leaves sock_len as it was; a
\* success stores the number of bytes written, all of the layout or only the
\* part before tcpi_snd_cwnd
Responses ==
    {[ret |-> -1, len |-> TcpInfoSize]} \cup
    {[ret |-> 0, len |-> l] : l \in {CwndOffset, TcpInfoSize}}

\* a probe that never looks at the status getsockopt returned
TcpInfoReadUnchecked(resp, kcwnd, junk) ==
    [ok |-> TRUE,
     cwnd |-> IF resp.len >= CwndOffset + U32 THEN kcwnd ELSE junk]

\* TcpInfo::read: Err when getsockopt returned non-zero, else assume_init()
\* of the buffer, whatever length came back
TcpInfoRead(resp, kcwnd, junk) ==
    IF resp.ret # 0
    THEN [ok |-> FALSE, cwnd |-> 0]
    ELSE [ok |-> TRUE,
          cwnd |-> IF resp.len >= CwndOffset + U32 THEN kcwnd ELSE junk]

\* States a process may find at startup: what an earlier process that was
\* killed between two commands of its build or of its teardown left behind.
RECURSIVE Prefixes(_, _)
Prefixes(cmds, n) ==
    IF n = 0 THEN {EmptyKern}
    ELSE Prefixes(cmds, n - 1) \cup {RunAll(SubSeq(cmds, 1, n), EmptyKern).k}

Leftovers ==
    LET built == Prefixes(InitNewCmds, Len(InitNewCmds))
    IN built \cup {DelNetns("server", K) : K \in built}

----------------------------------------------------------------------------
(* The process *)

Init ==
    /\ prog \in {"main", "old", "new"}
    /\ pc = "start"
    /\ kern \in Leftovers
    /\ curns = "root"
    /\ listener = FALSE
    /\ trial = 0
    /\ ret = "none"
    /\ qdisc0 = kern.qdisc
    /\ applied = NoRule
    /\ removed = NoRule
    /\ arg = IF prog = "main" THEN 0 ELSE <<0, <<0, 1>>>>
    /\ conn = "none"
    /\ rx = 0 /\ delivered = 0 /\ amount = 0 /\ total = 0
    /\ data = <<>> /\ spc = "none" /\ ticks = 0
    /\ clock = 0 /\ iter0 = 0 /\ segcnt = 0 /\ sent = 0
    /\ measurements = <<>>
    /\ wres = "none" /\ wbcnt = 0 /\ rc = 0 /\ sock_len = TcpInfoSize
    /\ spin = {}
    /\ lq = <<>> /\ served = 0
    /\ verdicts = <<>>

\* main: `let _ = clean();`
MainClean ==
    /\ prog = "main" /\ pc = "start"
    /\ kern' = clean(kern).k
    /\ pc' = "build"
    /\ UNCHANGED <<prog, spin, lvars, curns, listener, tvars, cvars, svars, fvars>>

\* the build chosen by the program
Build(K, ns, lst) ==
    CASE prog = "main" -> init(K, ns, lst)
      [] prog = "old" -> init_old(K, ns, lst)
      [] OTHER -> init_new(K, ns, lst)

\* main: `init().unwrap();`, and the call of init_old / init_new
DoBuild ==
    /\ pc = IF prog = "main" THEN "build" ELSE "start"
    /\ LET b == Build(kern, curns, listener)
       IN /\ kern' = b.k
          /\ curns' = b.curns
          /\ listener' = b.listener
          /\ pc' = IF b.ok THEN "idle" ELSE "panicked"
    /\ UNCHANGED <<prog, spin, lvars, tvars, cvars, svars, fvars>>

\* what a trial starts from
ResetTrial(a) ==
    /\ trial' = trial + 1
    /\ arg' = a
    /\ ret' = "none"
    /\ qdisc0' = kern.qdisc
    /\ applied' = NoRule
    /\ removed' = NoRule
    /\ conn' = "none"
    /\ rx' = 0 /\ delivered' = 0 /\ amount' = 0 /\ total' = 0
    /\ data' = <<>> /\ spc' = "none" /\ ticks' = 0
    /\ clock' = 0 /\ iter0' = 0 /\ segcnt' = 0 /\ sent' = 0
    /\ measurements' = <<>>
    /\ wres' = "none" /\ wbcnt' = 0 /\ rc' = 0 /\ sock_len' = TcpInfoSize
    /\ spin' = {}
    /\ verdicts' = <<>>

\* The sweep: the closure of simulate's map is entered for the next quantity
\* (main.rs), or the caller invokes simulate_old / simulate_new with (r, p).
StartTrial ==
    /\ pc = "idle" /\ trial < MaxTrials
    /\ \E a \in IF prog = "main" THEN {trial} ELSE Rs \X Ps : ResetTrial(a)
    /\ pc' = IF prog = "new" THEN "filter" ELSE "apply"
    /\ UNCHANGED <<prog, lvars, kvars>>

\* a trial returns Err: the `?` leaves the function at once
Fail ==
    /\ ret' = "err"
    /\ pc' = "returned"
    /\ conn' = IF conn \in {"open", "reset"} THEN "closed" ELSE conn

\* simulate_new: the five `nft add` commands
InstallFilter ==
    /\ pc = "filter"
    /\ LET r == RunAll(FilterCmds(arg[2]), kern)
       IN /\ kern' = r.k
          /\ IF r.ok
             THEN pc' = "apply" /\ UNCHANGED <<ret, conn>>
             ELSE Fail
    /\ UNCHANGED <<prog, spin, lvars, curns, listener, trial, qdisc0, applied, removed, arg,
                   cvars, svars, fvars>>

\* `tc qdisc add dev .. root netem ..`
Apply ==
    /\ pc = "apply"
    /\ LET rule == AddRule(prog, arg)
           r == Exec(CmdR("qdisc_add", rule.dev, rule), kern)
       IN /\ kern' = r.k
          /\ IF r.ok
             THEN /\ pc' = "connect"
                  /\ applied' = rule
                  /\ UNCHANGED <<ret, conn>>
             ELSE Fail /\ UNCHANGED applied
    /\ UNCHANGED <<prog, spin, lvars, curns, listener, trial, qdisc0, removed, arg,
                   cvars, svars, fvars>>

\* TcpStream::connect succeeds; main.rs then spawns the sampler thread,
\* simulate_old/new set the stream non-blocking and take `now`
ConnectOk ==
    /\ pc = "connect" /\ listener /\ Complete(kern)
    /\ conn' = "open"
    /\ lq' = Append(lq, trial)
    /\ pc' = IF prog = "main" THEN "loop" ELSE "sloop"
    /\ spc' = IF prog = "main" THEN "wait" ELSE spc
    /\ UNCHANGED <<prog, spin, served, kvars, trial, ret, qdisc0, applied, removed, arg,
                   rx, delivered, amount, total, data, ticks, svars, fvars>>

\* TcpStream::connect fails (the handshake does not get through)
ConnectErr ==
    /\ pc = "connect"
    /\ Fail
    /\ UNCHANGED <<prog, spin, lvars, kvars, trial, qdisc0, applied, removed, arg,
                   cvars, svars, fvars>>

----------------------------------------------------------------------------
(* Counter mode: the trial of simulate (main.rs) *)

\* a store in place of the add: what was in the counter is lost
fetch_add_as_store(cur, n) == n

\* amount.fetch_add(n, AcqRel): one atomic read-modify-write of the usize
fetch_add(cur, n) == cur + n

\* amount.swap(0, AcqRel) as f64 / LEN / 2f64.powf(17.0): the rate recorded
\* for the bytes handed over by the swap, in units of 2^-17 mb/s
Rate(bytes) == bytes * InvLEN

\* the bytes a recorded rate stands for
BytesOf(rate) == rate \div InvLEN

Min(a, b) == IF a < b THEN a ELSE b

\* the process is running
Alive == pc \notin {"panicked", "exited"}

\* a loop left without looking at the sampler, straight to the removal
LoopCheckNoWait ==
    /\ pc = "loop"
    /\ pc' = "remove"
    /\ UNCHANGED <<prog, spin, lvars, kvars, tvars, cvars, svars, fvars>>

\* `while !thread.is_finished()`
LoopCheck ==
    /\ pc = "loop"
    /\ pc' = IF spc = "done" THEN "join" ELSE "read"
    /\ UNCHANGED <<prog, spin, lvars, kvars, tvars, cvars, svars, fvars>>

\* stream.read(buffer) returns n > 0 bytes, which are added to the counter;
\* with nothing to read the call blocks
Read ==
    /\ pc = "read" /\ rx > 0
    /\ LET n == Min(rx, BUF)
       IN /\ amount' = fetch_add(amount, n)
          /\ total' = total + n
          /\ rx' = rx - n
    /\ pc' = "loop"
    /\ UNCHANGED <<prog, spin, lvars, kvars, tvars, delivered, data, spc, ticks, svars, fvars>>

\* stream.read(buffer)? fails: the closure returns, the thread handle is dropped
ReadErr ==
    /\ pc = "read" /\ conn = "reset"
    /\ Fail
    /\ UNCHANGED <<prog, spin, lvars, kvars, trial, qdisc0, applied, removed, arg,
                   cvars, svars, fvars>>

\* `while let Ok((mut stream, _)) = server.accept()`: the drain thread takes
\* the oldest connection of the backlog; with none it blocks
Accept ==
    /\ listener /\ served = 0 /\ lq # <<>>
    /\ served' = Head(lq)
    /\ lq' = Tail(lq)
    /\ UNCHANGED <<prog, pc, spin, kvars, tvars, cvars, svars, fvars>>

\* the client's end of the connection the drain thread is on is gone: the
\* trial closed its stream, or the connection broke
PeerGone == served < trial \/ conn \in {"closed", "reset"}

\* a drain thread that ends when its first connection is over
LeaveConnAndEnd ==
    /\ listener /\ served # 0 /\ PeerGone
    /\ served' = 0
    /\ listener' = FALSE
    /\ UNCHANGED <<prog, pc, spin, lq, kern, curns, tvars, cvars, svars, fvars>>

\* `while let Ok(_) = stream.write_all(..) {}` / `.. read_exact(..) {}`: the
\* operation fails, the inner loop ends and the stream is dropped
LeaveConn ==
    /\ listener /\ served # 0 /\ PeerGone
    /\ served' = 0
    /\ UNCHANGED <<prog, pc, spin, lq, kvars, tvars, cvars, svars, fvars>>

\* the peer's write_all loop gets a chunk through to the client
Deliver ==
    /\ prog = "main" /\ Alive /\ conn = "open" /\ served = trial
    /\ rx = 0 /\ delivered < MaxDeliver
    /\ rx' \in ChunkSizes
    /\ delivered' = delivered + 1
    /\ UNCHANGED <<prog, spin, lvars, pc, kvars, tvars, amount, total, data, spc, ticks,
                   svars, fvars>>

\* the connection breaks (the peer resets it, or the path times out): the
\* next read or write on the stream fails
ConnReset ==
    /\ Alive /\ conn = "open"
    /\ conn' = "reset"
    /\ UNCHANGED <<prog, spin, lvars, pc, kvars, trial, ret, qdisc0, applied, removed, arg,
                   cvars, svars, fvars>>

\* `while now.elapsed().as_secs_f64() < LEN {}`: the sampler finds that LEN
\* has not passed yet and goes round its empty loop
SamplerSpin ==
    /\ spc = "wait" /\ Alive
    /\ "sampler" \notin spin
    /\ spin' = spin \cup {"sampler"}
    /\ UNCHANGED <<prog, pc, lvars, kvars, tvars, cvars, svars, fvars>>

\* One iteration of the sampler: the wait of LEN is over, the counter is
\* swapped with 0 and the rate pushed; after CNT iterations the thread ends.
SamplerTick ==
    /\ spc = "wait" /\ Alive
    /\ data' = Append(data, Rate(amount))
    /\ amount' = 0
    /\ ticks' = ticks + 1
    /\ spc' = IF ticks + 1 >= CNT THEN "done" ELSE "wait"
    /\ spin' = spin \ {"sampler"}
    /\ UNCHANGED <<prog, pc, lvars, kvars, tvars, rx, delivered, total, svars, fvars>>

\* thread.join().unwrap()
Join ==
    /\ pc = "join" /\ spc = "done"
    /\ pc' = "remove"
    /\ UNCHANGED <<prog, spin, lvars, kvars, tvars, cvars, svars, fvars>>

\* `tc qdisc del dev .. root netem ..`
Remove ==
    /\ pc = "remove"
    /\ LET rule == DelRule(prog, arg)
           r == Exec(CmdR("qdisc_del", rule.dev, rule), kern)
       IN /\ kern' = r.k
          /\ removed' = rule
          /\ IF ~r.ok THEN Fail
             ELSE CASE prog = "main" -> pc' = "plot" /\ UNCHANGED <<ret, conn>>
                    [] prog = "new" -> pc' = "flush" /\ UNCHANGED <<ret, conn>>
                    [] OTHER -> pc' = "returned" /\ ret' = "ok" /\ conn' = "closed"
    /\ UNCHANGED <<prog, spin, lvars, curns, listener, trial, qdisc0, applied, arg,
                   cvars, svars, fvars>>

\* the trial's chart is drawn and the closure returns Ok(mean)
PlotOk ==
    /\ pc = "plot"
    /\ pc' = "returned" /\ ret' = "ok" /\ conn' = "closed"
    /\ UNCHANGED <<prog, spin, lvars, kvars, trial, qdisc0, applied, removed, arg,
                   cvars, svars, fvars>>

\* a drawing call fails (root.fill(..)?, draw()?, present()?)
PlotErr ==
    /\ pc = "plot"
    /\ Fail
    /\ UNCHANGED <<prog, spin, lvars, kvars, trial, qdisc0, applied, removed, arg,
                   cvars, svars, fvars>>

----------------------------------------------------------------------------
(* Snapshot mode: the trial of simulate_old and simulate_new *)

\* `while now.elapsed() < Duration::from_secs(60)`, then `let now = ..`
SLoopCheck ==
    /\ pc = "sloop"
    /\ IF clock < DUR
       THEN pc' = "write" /\ iter0' = clock
       ELSE pc' = "remove" /\ UNCHANGED iter0
    /\ UNCHANGED <<prog, spin, lvars, kvars, tvars, cvars, clock, segcnt, sent,
                   measurements, wres, wbcnt, rc, sock_len, fvars>>

\* a successful write that also pushes a sample
WriteOkSampling ==
    /\ pc = "write" /\ conn = "open"
    /\ wres' = "ok"
    /\ segcnt' = segcnt + 1
    /\ sent' = sent + FRAME
    /\ clock' = clock + 1
    /\ \E kcwnd \in CwndVals :
          measurements' = Append(measurements,
              [bytes_transferred |-> segcnt * FRAME,
               congestion_window |-> kcwnd])
    /\ pc' = "sloop"
    /\ UNCHANGED <<prog, spin, lvars, kvars, tvars, cvars, iter0, wbcnt, rc, sock_len, fvars>>

\* write_all takes the whole frame
WriteOk ==
    /\ pc = "write" /\ conn = "open"
    /\ wres' = "ok"
    /\ segcnt' = segcnt + 1
    /\ sent' = sent + FRAME
    /\ clock' = clock + 1
    /\ pc' = "sloop"
    /\ UNCHANGED <<prog, spin, lvars, kvars, tvars, cvars, iter0, measurements, wbcnt, rc,
                   sock_len, fvars>>

\* write_all reports WouldBlock after the socket took k bytes of the frame;
\* the loop goes on to its wait
WriteWouldBlock ==
    /\ pc = "write" /\ conn = "open"
    /\ wres' = "wouldblock"
    /\ wbcnt' = wbcnt + 1
    /\ \E k \in PartialSizes : sent' = sent + k
    /\ pc' = "spin"
    /\ UNCHANGED <<prog, spin, lvars, kvars, tvars, cvars, clock, iter0, segcnt,
                   measurements, rc, sock_len, fvars>>

\* `while now.elapsed() < Duration::from_millis(100) {}`: the condition is
\* evaluated before the 100 ms have passed and the empty body runs; the
\* clock moves on while the thread goes round (d: by how much)
SpinCheck ==
    /\ pc = "spin" /\ clock < iter0 + INTERVAL
    /\ \E d \in {1, 2} : clock' = clock + d
    /\ spin' = spin \cup {"transfer"}
    /\ UNCHANGED <<prog, pc, lvars, kvars, tvars, cvars, iter0, segcnt, sent,
                   measurements, wres, wbcnt, rc, sock_len, fvars>>

\* the condition is evaluated after the 100 ms have passed: the loop is left
SpinExit ==
    /\ pc = "spin" /\ clock >= iter0 + INTERVAL
    /\ spin' = spin \ {"transfer"}
    /\ pc' = "probe"
    /\ UNCHANGED <<prog, lvars, kvars, tvars, cvars, svars, fvars>>

\* a write error that is dropped: the loop goes on to its next iteration
WriteErrIgnored ==
    /\ pc = "write" /\ conn = "reset"
    /\ wres' = "error"
    /\ pc' = "sloop"
    /\ UNCHANGED <<prog, spin, lvars, kvars, tvars, cvars, clock, iter0, segcnt, sent,
                   measurements, wbcnt, rc, sock_len, fvars>>

\* write_all fails with another error: `Err(e)?`
WriteErr ==
    /\ pc = "write" /\ conn = "reset"
    /\ wres' = "error"
    /\ Fail
    /\ UNCHANGED <<prog, spin, lvars, kvars, trial, qdisc0, applied, removed, arg,
                   cvars, clock, iter0, segcnt, sent, measurements, wbcnt, rc,
                   sock_len, fvars>>

\* a probe whose sample counts the frames since the previous sample
ProbeOkResetting ==
    /\ pc = "probe"
    /\ \E resp \in Responses, kcwnd \in CwndVals, junk \in JunkVals :
          LET info == TcpInfoRead(resp, kcwnd, junk) IN
          /\ info.ok
          /\ rc' = resp.ret /\ sock_len' = resp.len
          /\ measurements' = Append(measurements,
                [bytes_transferred |-> segcnt * FRAME,
                 congestion_window |-> info.cwnd])
    /\ segcnt' = 0
    /\ pc' = "sloop"
    /\ UNCHANGED <<prog, spin, lvars, kvars, tvars, cvars, clock, iter0, sent, wres,
                   wbcnt, fvars>>

\* tcp_info(&stream)? succeeds and the measurement is pushed
ProbeOk ==
    /\ pc = "probe"
    /\ \E resp \in Responses, kcwnd \in CwndVals, junk \in JunkVals :
          LET info == TcpInfoRead(resp, kcwnd, junk) IN
          /\ info.ok
          /\ rc' = resp.ret /\ sock_len' = resp.len
          /\ measurements' = Append(measurements,
                [bytes_transferred |-> segcnt * FRAME,
                 congestion_window |-> info.cwnd])
    /\ pc' = "sloop"
    /\ UNCHANGED <<prog, spin, lvars, kvars, tvars, cvars, clock, iter0, segcnt, sent, wres,
                   wbcnt, fvars>>

\* tcp_info(&stream)? fails (getsockopt returned non-zero)
ProbeErr ==
    /\ pc = "probe"
    /\ \E resp \in Responses, kcwnd \in CwndVals, junk \in JunkVals :
          /\ ~TcpInfoRead(resp, kcwnd, junk).ok
          /\ rc' = resp.ret /\ sock_len' = resp.len
    /\ Fail
    /\ UNCHANGED <<prog, spin, lvars, kvars, trial, qdisc0, applied, removed, arg,
                   cvars, clock, iter0, segcnt, sent, measurements, wres, wbcnt,
                   fvars>>

\* simulate_new: `nft flush ruleset`, then Ok(measurements)
Flush ==
    /\ pc = "flush"
    /\ LET r == Exec(Cmd("nft_flush", "server"), kern)
       IN /\ kern' = r.k
          /\ IF r.ok
             THEN pc' = "returned" /\ ret' = "ok" /\ conn' = "closed"
             ELSE Fail
    /\ UNCHANGED <<prog, spin, lvars, curns, listener, trial, qdisc0, applied, removed, arg,
                   cvars, svars, fvars>>

\* A packet reaches the input hook of the server context while the trial's
\* connection is being opened or used, and runs through the filter chain.
Packet ==
    /\ prog = "new" /\ pc \in {"connect", "sloop", "write", "spin", "probe"}
    /\ Len(verdicts) < MaxPkts
    /\ \E plen \in PacketLens :
          LET f == Filter(kern.nft["server"].rules, 1, plen)
          IN /\ kern' = [kern EXCEPT !.nft["server"].rules = f.rules]
             /\ verdicts' = IF f.last = "none" THEN verdicts
                            ELSE Append(verdicts, f.last = "drop")
    /\ UNCHANGED <<prog, spin, lvars, pc, curns, listener, tvars, cvars, svars>>

----------------------------------------------------------------------------
(* After a trial *)

\* main.rs: collect::<Result<Vec<_>>>()? and main's unwrap end the process at
\* the first Err, and its threads with it; Ok goes on to the next quantity.
\* The caller of simulate_old / simulate_new gets the Result and goes on.
AfterTrial ==
    /\ pc = "returned"
    /\ IF prog = "main" /\ ret = "err"
       THEN /\ pc' = "panicked" /\ spc' = "none" /\ spin' = {}
            /\ listener' = FALSE /\ lq' = <<>> /\ served' = 0
       ELSE pc' = "idle" /\ UNCHANGED <<spc, listener, spin, lvars>>
    /\ UNCHANGED <<prog, kern, curns, tvars, rx, delivered, amount, total, data,
                   ticks, svars, fvars>>

\* main.rs: every quantity is done, the summary chart is drawn, and
\* `clean().unwrap()` ends main
MainFinish ==
    /\ prog = "main" /\ pc = "idle" /\ trial = MaxTrials
    /\ LET r == clean(kern)
       IN /\ kern' = r.k
          /\ pc' = IF r.ok THEN "exited" ELSE "panicked"
    /\ listener' = FALSE /\ lq' = <<>> /\ served' = 0
    /\ UNCHANGED <<prog, spin, curns, tvars, cvars, svars, fvars>>

\* main.rs: a drawing call of the summary chart fails: simulate returns Err
\* and main's unwrap panics before clean
MainChartErr ==
    /\ prog = "main" /\ pc = "idle" /\ trial = MaxTrials
    /\ pc' = "panicked"
    /\ listener' = FALSE /\ lq' = <<>> /\ served' = 0
    /\ UNCHANGED <<prog, spin, kern, curns, tvars, cvars, svars, fvars>>

\* the caller of simulate_old / simulate_new runs no further trial
DriverExit ==
    /\ prog # "main" /\ pc = "idle"
    /\ pc' = "exited"
    /\ listener' = FALSE /\ lq' = <<>> /\ served' = 0
    /\ UNCHANGED <<prog, spin, kern, curns, tvars, cvars, svars, fvars>>

\* steps of the main thread of main.rs
MainThread ==
    \/ MainClean \/ DoBuild \/ StartTrial \/ Apply
    \/ ConnectOk \/ ConnectErr
    \/ LoopCheck \/ Read \/ ReadErr \/ Join
    \/ Remove \/ PlotOk \/ PlotErr
    \/ AfterTrial \/ MainFinish \/ MainChartErr

\* steps simulate_old and simulate_new share, and their caller's
TransferThread ==
    \/ SLoopCheck \/ WriteOk \/ WriteWouldBlock \/ WriteErr
    \/ SpinCheck \/ SpinExit
    \/ ProbeOk \/ ProbeErr
    \/ DriverExit

\* steps only simulate_old / simulate_new and their caller take
SnapshotThread == InstallFilter \/ Flush \/ TransferThread

\* steps of the drain thread spawned by the build
DrainThread == Accept \/ LeaveConn

\* steps of the network
NetStep == Deliver \/ ConnReset \/ Packet

\* steps of the sampler thread of simulate
SamplerThread == SamplerSpin \/ SamplerTick

Next ==
    MainThread \/ SamplerThread \/ SnapshotThread \/ DrainThread \/ NetStep

\* the three programs, from every leftover state
Spec == Init /\ [][Next]_vars

\* main.rs alone: its threads are scheduled fairly (a runnable thread runs),
\* the network owes nothing
InitMain == Init /\ prog = "main"

NextMain ==
    MainThread \/ SamplerThread \/ DrainThread \/ Deliver \/ ConnReset

FairMain ==
    /\ InitMain /\ [][NextMain]_vars
    /\ WF_vars(MainThread) /\ WF_vars(SamplerTick)
    /\ WF_vars(Accept) /\ WF_vars(LeaveConn)

\* main.rs and initial.rs, whose builds spawn the drain thread: that thread is
\* scheduled fairly; the trials and the network owe nothing
InitServe == Init /\ prog \in {"main", "old"}

NextServe ==
    \/ MainThread \/ SamplerThread \/ TransferThread \/ DrainThread
    \/ Deliver \/ ConnReset

FairServe ==
    InitServe /\ [][NextServe]_vars /\ WF_vars(Accept) /\ WF_vars(LeaveConn)

----------------------------------------------------------------------------
(* Properties *)

\* the trial's body is running: from its first command to the step that returns
Running ==
    pc \in {"filter", "apply", "connect", "loop", "read", "join", "remove",
            "plot", "sloop", "write", "spin", "probe", "flush"}

RECURSIVE SumBytes(_)
SumBytes(rates) ==
    IF rates = <<>> THEN 0 ELSE BytesOf(Head(rates)) + SumBytes(Tail(rates))

\* the number of samples the trial hands back
SampleCount == IF prog = "main" THEN Len(data) ELSE Len(measurements)

\* floor(duration / sample_interval) of the trial
Expected == IF prog = "main" THEN CNT ELSE DUR \div INTERVAL

\* C1: whenever a trial has returned, with a result or with an error, the
\* qdisc it added is no longer installed.
C1_NoLeakAtReturn ==
    (pc = "returned" /\ applied # NoRule) => kern.qdisc[applied.dev] = NoRule

\* C2: once a trial has issued its `tc qdisc del`, the rule it named is exactly
\* the rule its `tc qdisc add` installed, and the qdiscs of both link ends are
\* again what they were before the add.
C2_ApplyRemoveRoundTrip ==
    removed # NoRule => (removed = applied /\ kern.qdisc = qdisc0)

C2_Witness ==
    /\ pc = "returned" /\ ret = "ok"
    /\ applied # NoRule /\ removed = applied /\ trial = 2

\* C3: in counter mode, at every moment and under every interleaving of the
\* reads and the sampler's ticks, the bytes of the recorded rates plus the bytes
\* still in the counter are the bytes added so far.
C3_NoByteLostOrDoubled ==
    prog = "main" => SumBytes(data) + amount = total

C3_Witness ==
    /\ prog = "main" /\ spc = "done" /\ Len(data) >= 2
    /\ data[1] > 0 /\ data[2] > 0 /\ amount > 0
    /\ total = 2 * BUF + 2

\* C4: every trial that has started eventually returns, also when the peer
\* stops delivering.
C4_TrialTerminates == Running ~> ~Running

\* C5: a trial that returns a result returns floor(duration / interval)
\* samples, give or take one.
C5_SampleCount ==
    (pc = "returned" /\ ret = "ok") =>
        (SampleCount >= Expected - 1 /\ SampleCount <= Expected + 1)

\* C6: whenever simulate_new has returned, with a result or with an error, the
\* server's filter ruleset is empty.
C6_FilterFlushedAtReturn ==
    (prog = "new" /\ pc = "returned") => kern.nft["server"] = NoFilter

\* C7: once a trial has returned, the sampling thread it started is no longer
\* running.
C7_SamplerJoinedAtReturn ==
    pc = "returned" => spc # "wait"

\* C8: after teardown (clean), from whatever state it was called in, neither
\* network context exists.
C8_TeardownLeavesNoContext ==
    (prog = "main" /\ (pc = "build" \/ pc = "exited")) => kern.netns = {}

\* C9: a build, from whatever leftover state, succeeds and leaves the complete
\* topology.
C9_BuildSucceeds ==
    /\ ~(pc = "panicked" /\ trial = 0)
    /\ pc = "idle" => Complete(kern)

\* C10: for p in (0, 1] and N = round(1/p), among the packets the trial's rule
\* has seen, every run of N consecutive packets holds exactly one dropped
\* packet, and the pattern of drops repeats with period N.
C10_OneDropInEveryN ==
    (prog = "new" /\ verdicts # <<>>) =>
        LET N == RoundRecip(arg[2]).n
            L == Len(verdicts)
        IN /\ \A i \in 1 .. (L - N + 1) :
                 Cardinality({j \in i .. (i + N - 1) : verdicts[j]}) = 1
           /\ \A j \in 1 .. (L - N) : verdicts[j] = verdicts[j + N]

C10_Witness ==
    /\ prog = "new" /\ Len(verdicts) >= 6
    /\ RoundRecip(arg[2]).n = 3
    /\ Cardinality({j \in 1 .. Len(verdicts) : verdicts[j]}) = 2


\* C11: whenever the process of main.rs has ended after its topology was
\* built, by returning from main or by the panic of a failed trial, neither
\* network context exists.
C11_TopologyDestroyedAtExit ==
    (prog = "main" /\ trial > 0 /\ pc \in {"exited", "panicked"}) =>
        kern.netns = {}


\* C12: in simulate_old / simulate_new a would-block write is waited out and
\* the trial goes on (it reaches the probe no earlier than the bounded wait,
\* and never fails because of the would-block), while any other write failure
\* makes the trial return Err, with no result.
C12_OnlyWouldBlockRecoverable ==
    /\ wres = "error" => (pc \in {"returned", "idle", "exited"} /\ ret = "err")
    /\ pc = "probe" =>
          /\ wres = "wouldblock" /\ ret = "none"
          /\ clock >= iter0 + INTERVAL /\ clock <= iter0 + INTERVAL + 1
    /\ (wres = "wouldblock" /\ ret = "err") => rc # 0

C12_Witness ==
    /\ pc = "returned" /\ ret = "err" /\ wres = "error"
    /\ wbcnt >= 1 /\ Len(measurements) >= 1 /\ segcnt >= 1


\* C13: when getsockopt returns a non-zero status at a sampling tick,
\* TcpInfo::read returns an error, the tick gets no sample, and the trial has
\* returned Err; a trial that returns Ok has a sample for every tick.
C13_ProbeFailureNotSkipped ==
    /\ \A resp \in Responses, kcwnd \in CwndVals, junk \in JunkVals :
          resp.ret # 0 => ~TcpInfoRead(resp, kcwnd, junk).ok
    /\ rc # 0 =>
          /\ pc \in {"returned", "idle", "exited"} /\ ret = "err"
          /\ Len(measurements) = wbcnt - 1
    /\ ret = "ok" => Len(measurements) = wbcnt

C13_Witness ==
    /\ rc # 0 /\ pc = "returned" /\ ret = "err"
    /\ wbcnt = 2 /\ Len(measurements) = 1

\* C14: TcpInfo::read returns a snapshot only when the length getsockopt
\* stored equals the size of the layout; with any other length the probe
\* fails and no sample is built from the buffer.
C14_LengthValidated ==
    sock_len # TcpInfoSize => (ret = "err" /\ Len(measurements) < wbcnt)


\* the most recent sample of the trial
LastSample == measurements[Len(measurements)]

\* C15: a sample's bytes_transferred equals the bytes the socket has accepted
\* up to its tick, the part of a frame written before the would-block
\* included.
C15_SampleCountsAcceptedBytes ==
    (pc = "sloop" /\ wres = "wouldblock" /\ wbcnt > 0
        /\ Len(measurements) = wbcnt) =>
        LastSample.bytes_transferred = sent

\* C16: over the samples of a trial, in order, bytes_transferred never
\* decreases from one sample to the next.
C16_BytesMonotone ==
    \A i \in 1..(Len(measurements) - 1) :
        measurements[i].bytes_transferred <= measurements[i + 1].bytes_transferred

C16_Witness ==
    /\ Len(measurements) = 2
    /\ measurements[1].bytes_transferred < measurements[2].bytes_transferred


\* the most samples a trial of DUR can hold: one per INTERVAL, rounded up
MaxSamples == (DUR + INTERVAL - 1) \div INTERVAL

\* C20: in simulate_old / simulate_new a sample is pushed only in an iteration
\* whose write reported would-block and that has waited INTERVAL from its
\* start; an iteration whose write succeeded pushes none. So the samples of a
\* trial are as many as its would-block iterations (one fewer while the
\* current one has yet to push, or when its probe failed), and at most
\* DUR / INTERVAL rounded up.
C20_SamplesOnlyOnWouldBlock ==
    /\ Len(measurements) <= wbcnt /\ wbcnt <= Len(measurements) + 1
    /\ wbcnt = Len(measurements) + 1 =>
          \/ pc = "spin"
          \/ pc = "probe" /\ clock >= iter0 + INTERVAL
          \/ ret = "err" /\ rc # 0
    /\ (wres = "ok" /\ ret # "err") =>
          (Len(measurements) = wbcnt /\ segcnt > 0)
    /\ (prog # "main" /\ ret = "ok") => Len(measurements) = wbcnt
    /\ wbcnt <= MaxSamples

C20_Witness ==
    /\ prog # "main" /\ pc = "returned" /\ ret = "ok"
    /\ Len(measurements) = MaxSamples /\ wbcnt = MaxSamples /\ segcnt > 0


\* the trial is at a point from which a sample can be pushed
Sampling == pc = "probe" \/ (spc = "wait" /\ Alive)

\* C17: in every trial the impairment is applied before the connection is
\* opened, it is installed whenever a sample can be recorded, and it is
\* removed only after the last sample, with the sampler finished and joined;
\* a trial's impairment is applied only to devices that carry none, so the
\* earlier trial's removal came first and at most one is installed.
C17_LifecycleOrder ==
    /\ conn # "none" => applied = AddRule(prog, arg)
    /\ Sampling =>
          /\ applied # NoRule /\ removed = NoRule
          /\ kern.qdisc[applied.dev] = applied
    /\ removed # NoRule =>
          /\ pc \in {"plot", "flush", "returned", "idle", "exited", "panicked"}
          /\ Alive => spc = IF prog = "main" THEN "done" ELSE "none"
          /\ prog = "main" => Len(data) = CNT
    /\ applied # NoRule => \A s \in Sides : qdisc0[s] = NoRule
    /\ Cardinality({s \in Sides : kern.qdisc[s] # NoRule}) <= 1

C17_Witness ==
    /\ prog = "main" /\ trial = 2 /\ pc = "returned" /\ ret = "ok"
    /\ applied = NetemMain(arg) /\ removed = applied /\ Len(data) = CNT
    /\ \A s \in Sides : kern.qdisc[s] = NoRule


\* C18: no thread goes round a loop while it waits: neither the transfer path
\* after a would-block write nor the sampler between two ticks takes a step
\* before its time has passed.
C18_NoBusyLoop == spin = {}


\* the connection of trial k waits in the backlog
InBacklog(k) == \E i \in 1 .. Len(lq) : lq[i] = k

====
